---- MODULE Spec2Model ----
(***************************************************************************)
(* Model of CWT/cwt.py: the ContinuousWaveletTransform Keras layer and its *)
(* ComplexMorletCWT subclass.                                              *)
(*                                                                         *)
(* Real numbers are modelled exactly.  Scales and frequencies are          *)
(* rationals <<num, den>> in lowest terms with den > 0; the constructor    *)
(* arguments are drawn from integers for which the (n_scales-1)-th root    *)
(* taken by np.power is itself rational, so that no rounding is needed.    *)
(* A filter bank is represented by the quantities its taps are computed    *)
(* from: the number of taps, the value of wavelet_width read when it was   *)
(* synthesized, and per scale the square of norm_constant divided by pi.   *)
(* The centre tap of the real part is 1 / norm_constant, so two banks of   *)
(* the same layer are equal as tensors exactly if these records are equal. *)
(***************************************************************************)
EXTENDS Integers, Sequences, FiniteSets, TLC

\* ------------------------------------------------------------------------
\* Bounds of the model
\* lower_freq, upper_freq range over -1 .. MaxFreq
MaxFreq == 4
\* n_scales ranges over -1 .. MaxScales
MaxScales == 3
\* fs ranges over -1 .. MaxFs
MaxFs == 2
\* wavelet_width ranges over -1 .. MaxWidth
MaxWidth == 2
\* stride ranges over 0 .. MaxStride
MaxStride == 2
\* border_crop ranges over -1 .. MaxCrop
MaxCrop == 2
\* time length of a signal, 1 .. MaxTime
MaxTime == 4
\* channels of a signal, 1 or MaxChannels
MaxChannels == 2
\* batch size of a signal
MaxBatch == 3

\* ------------------------------------------------------------------------
\* Exact arithmetic
Abs(x) == IF x < 0 THEN -x ELSE x

Max(a, b) == IF a >= b THEN a ELSE b

Min(a, b) == IF a <= b THEN a ELSE b

RECURSIVE GCD(_, _)
GCD(a, b) == IF b = 0 THEN a ELSE GCD(b, a % b)

\* the rational n/d (d # 0) in lowest terms with a positive denominator
Rat(n, d) ==
    LET g == GCD(Abs(n), Abs(d))
        s == IF d < 0 THEN -1 ELSE 1
    IN  <<(s * n) \div g, (s * d) \div g>>

RMul(x, y) == Rat(x[1] * y[1], x[2] * y[2])

RDiv(x, y) == Rat(x[1] * y[2], x[2] * y[1])

RLess(x, y) == x[1] * y[2] < y[1] * x[2]

RECURSIVE IPow(_, _)
IPow(a, k) == IF k = 0 THEN 1 ELSE a * IPow(a, k - 1)

RPow(x, k) == <<IPow(x[1], k), IPow(x[2], k)>>

IsPower(p, k) == \E a \in 1..p : IPow(a, k) = p

IRoot(p, k) == CHOOSE a \in 1..p : IPow(a, k) = p

\* floor of the square root of a natural number
ISqrt(x) == CHOOSE r \in 0..x : r * r <= x /\ (r + 1) * (r + 1) > x

RECURSIVE RMaxUpTo(_, _)
RMaxUpTo(seq, n) ==
    IF n = 1 THEN seq[1]
    ELSE LET m == RMaxUpTo(seq, n - 1)
         IN  IF RLess(m, seq[n]) THEN seq[n] ELSE m

\* ndarray.max() of a non-empty array of rationals
RMax(seq) == RMaxUpTo(seq, Len(seq))

\* ------------------------------------------------------------------------
\* Values the constructor arguments are drawn from
Freqs == ((0 - 1)..MaxFreq) \cup {25}
NScales == (0 - 1)..MaxScales
Rates == (0 - 1)..MaxFs
Widths == (0 - 1)..MaxWidth
SizeFactors == {1, 2}
Strides == 0..MaxStride
Crops == (0 - 1)..MaxCrop
Outputs == {"complex", "magnitude", "phase", "power"}
DataFormats == {"channels_last", "channels_first", "NCHW"}
Signals == [batch : {MaxBatch}, time : 1..MaxTime, channels : {1, MaxChannels}]

NoLayer == [n_scales |-> 0]
NoBank == [kernel_size |-> 0]
NoArgs == [n_scales |-> 0]
NoCall == [status |-> "none"]

\* ------------------------------------------------------------------------
\* ComplexMorletCWT.__init__

\* the argument checks at the head of __init__; "none" when all pass
check_args(a) ==
    IF a.lower_freq > a.upper_freq THEN "ValueError"
    ELSE IF a.lower_freq < 0 THEN "ValueError"
    ELSE IF a.output \notin {"complex", "magnitude", "phase"} THEN "ValueError"
    ELSE IF a.data_format \notin {"channels_last", "channels_first"}
         THEN "ValueError"
    ELSE "none"

\* `1 / d` on Python numbers raises ZeroDivisionError exactly when d is 0
true_div_raises(d) == d = 0

\* variant: the first scale taken from the lower frequency
s_0_from_lower(a) == Rat(1, a.lower_freq)

\* s_0 = 1 / upper_freq
s_0(a) == Rat(1, a.upper_freq)

\* s_n = 1 / lower_freq
s_n(a) == Rat(1, a.lower_freq)

\* base = np.power(s_n / s_0, 1 / (n_scales - 1)), for n_scales >= 2
scale_base(a) ==
    LET r == RDiv(s_n(a), s_0(a))
        k == a.n_scales - 1
    IN  <<IRoot(r[1], k), IRoot(r[2], k)>>

\* the arguments whose base is rational (the exact model covers these)
BaseIsExact(a) ==
    (a.lower_freq > 0 /\ a.upper_freq >= a.lower_freq /\ a.n_scales >= 2)
        => LET r == RDiv(s_n(a), s_0(a))
           IN  IsPower(r[1], a.n_scales - 1) /\ IsPower(r[2], a.n_scales - 1)

\* scales = s_0 * np.power(base, np.arange(n_scales)); np.arange of a
\* non-positive count is empty and np.power(x, 0) is 1 for every x
make_scales(a) ==
    LET base == scale_base(a)
    IN  [i \in 1..Max(a.n_scales, 0) |->
            IF i = 1 THEN s_0(a) ELSE RMul(s_0(a), RPow(base, i - 1))]

\* frequencies = 1 / scales
make_frequencies(scales) ==
    [i \in 1..Len(scales) |-> RDiv(<<1, 1>>, scales[i])]

\* ------------------------------------------------------------------------
\* ComplexMorletCWT._build_wavelet_bank

\* variant: the support sized from the width read at build time
sizing_width_current(self, width) == width

\* the width the kernel support is sized from
sizing_width(self, width) == self.initial_wavelet_width

\* what _build_wavelet_bank raises: max() of an empty array is a ValueError,
\* and so is int() of the NaN that np.sqrt gives for a negative number
bank_raises(self, width) ==
    IF Len(self.scales) = 0 THEN "ValueError"
    ELSE IF sizing_width(self, width) < 0 THEN "ValueError"
    ELSE "none"

\* one_side = int(size_factor * scales.max() * sqrt(4.5 * width) * fs);
\* int() truncates toward zero
one_side(self, width) ==
    LET m == RMax(self.scales)
        sq == (self.size_factor * self.size_factor * m[1] * m[1] * 9
                 * sizing_width(self, width) * self.fs * self.fs)
              \div (2 * m[2] * m[2])
    IN  IF self.fs < 0 THEN 0 - ISqrt(sq) ELSE ISqrt(sq)

kernel_size(self, width) == 2 * one_side(self, width) + 1

\* norm_constant = sqrt(pi * wavelet_width) * scale * fs / 2, recorded as
\* norm_constant^2 / pi (with the sign of fs)
norm_constant(self, width, scale) ==
    Rat(width * scale[1] * scale[1] * self.fs * self.fs,
        4 * scale[2] * scale[2])

\* the pair (wavelet_bank_real, wavelet_bank_imag): kernel_size taps per scale
\* (none when kernel_size is negative), synthesized from the width read now
build_wavelet_bank(self, width) ==
    LET size == kernel_size(self, width)
    IN
    [kernel_size |-> size,
     taps |-> Max(size, 0),
     n_scales |-> Len(self.scales),
     width |-> width,
     norm |-> [i \in 1..Len(self.scales) |->
                  norm_constant(self, width, self.scales[i])]]

\* ------------------------------------------------------------------------
\* The fields __init__ sets before the bank is built
init_fields(a) ==
    LET scales == make_scales(a)
    IN
    [n_scales |-> a.n_scales,
     border_crop |-> a.border_crop,
     stride |-> a.stride,
     outputformat |-> a.output,
     data_format |-> a.data_format,
     initial_wavelet_width |-> a.wavelet_width,
     fs |-> a.fs,
     lower_freq |-> a.lower_freq,
     upper_freq |-> a.upper_freq,
     size_factor |-> a.size_factor,
     scales |-> scales,
     frequencies |-> make_frequencies(scales)]

\* variant: the exponent 1 / (n_scales - 1) never raises
init_raises_any_count(a) ==
    IF check_args(a) # "none" THEN "ValueError"
    ELSE IF true_div_raises(a.upper_freq) THEN "ZeroDivisionError"
    ELSE IF true_div_raises(a.lower_freq) THEN "ZeroDivisionError"
    ELSE bank_raises(init_fields(a), a.wavelet_width)

\* the exception __init__ ends with, "none" when it returns
init_raises(a) ==
    IF check_args(a) # "none" THEN "ValueError"
    ELSE IF true_div_raises(a.upper_freq) THEN "ZeroDivisionError"
    ELSE IF true_div_raises(a.lower_freq) THEN "ZeroDivisionError"
    ELSE IF true_div_raises(a.n_scales - 1) THEN "ZeroDivisionError"
    ELSE bank_raises(init_fields(a), a.wavelet_width)

\* ------------------------------------------------------------------------
\* ContinuousWaveletTransform.call, on tensor shapes

\* a // b on Python ints, b > 0
floor_div(a, b) == a \div b

CeilDiv(a, b) == (a + b - 1) \div b

\* variant: end = -border_crop whether or not it is positive
crop_slice_closed(crop) == [start |-> crop, open |-> FALSE, stop |-> 0 - crop]

\* start = border_crop; end = (-border_crop) if (border_crop > 0) else None
crop_slice(crop) ==
    [start |-> crop,
     open |-> ~(crop > 0),
     stop |-> IF crop > 0 THEN 0 - crop ELSE 0]

\* a slice index brought into 0 .. len, as Python and TensorFlow do
clamp_index(i, len) == IF i < 0 THEN Max(i + len, 0) ELSE Min(i, len)

\* the number of elements of x[start:end] for an axis of length len
slice_len(len, sl) ==
    LET a == clamp_index(sl.start, len)
        b == IF sl.open THEN len ELSE clamp_index(sl.stop, len)
    IN  Max(b - a, 0)

\* tf.transpose(a, perm), perm written with axes counted from 0
transpose(shape, perm) == [i \in 1..Len(perm) |-> shape[perm[i] + 1]]

\* tf.expand_dims(a, axis)
expand_dims(shape, axis) ==
    [i \in 1..(Len(shape) + 1) |->
        IF i <= axis THEN shape[i]
        ELSE IF i = axis + 1 THEN 1
        ELSE shape[i - 1]]

\* tf.nn.conv2d(input, filters, strides=[1, 1, stride, 1], padding="SAME")
\* on [batch.., height, width, 1] with filters [1, taps, 1, n_scales]
conv2d(shape, bank, stride) ==
    [i \in 1..Len(shape) |->
        IF i = Len(shape) THEN bank.n_scales
        ELSE IF i = Len(shape) - 1 THEN CeilDiv(shape[i], stride)
        ELSE shape[i]]

\* x[:, :, 0, start:end, :]
crop_axis(shape, sl) ==
    <<shape[1], shape[2], slice_len(shape[4], sl), shape[5]>>

\* variant: real and imaginary parts concatenated in every output format
format_output_concat(shape, outputformat) == [shape EXCEPT ![2] = 2 * shape[2]]

\* the magnitude / phase / concat branch: tf.concat(..., axis=1) doubles axis 1
format_output(shape, outputformat) ==
    IF outputformat = "magnitude" THEN shape
    ELSE IF outputformat = "phase" THEN shape
    ELSE [shape EXCEPT ![2] = 2 * shape[2]]

\* the layout the caller passes a signal in
input_shape(data_format, sig) ==
    IF data_format = "channels_last"
    THEN <<sig.batch, sig.time, sig.channels>>
    ELSE <<sig.batch, sig.channels, sig.time>>

\* the shape of the tensor call returns, for stride >= 1
call_shape(layer, sig) ==
    LET crop == floor_div(layer.border_crop, layer.stride)
        inputs == IF layer.data_format = "channels_last"
                  THEN transpose(input_shape(layer.data_format, sig), <<0, 2, 1>>)
                  ELSE input_shape(layer.data_format, sig)
        inputs_expand == expand_dims(expand_dims(inputs, 2), 4)
        conv == conv2d(inputs_expand, layer.wavelet_bank, layer.stride)
        cropped == crop_axis(conv, crop_slice(crop))
        scalograms == format_output(cropped, layer.outputformat)
    IN  IF layer.data_format = "channels_last"
        THEN transpose(scalograms, <<0, 2, 3, 1>>)
        ELSE scalograms

\* the filters call convolves with: self.real_part and -self.imaginary_part
call_filters(layer, width) == layer.wavelet_bank

\* what call returns or raises for a signal
call_result(layer, width, sig) ==
    IF layer.stride = 0
    THEN [status |-> "ZeroDivisionError", signal |-> sig, width |-> width]
    ELSE [status |-> "ok", signal |-> sig, width |-> width,
          filters |-> call_filters(layer, width),
          scales |-> layer.scales,
          outputformat |-> layer.outputformat,
          data_format |-> layer.data_format,
          shape |-> call_shape(layer, sig)]

\* ------------------------------------------------------------------------
VARIABLES args, status, self, wavelet_width, built, out

vars == <<args, status, self, wavelet_width, built, out>>

\* arguments of the filter bank varied, the engine's left at their defaults
ArgSpace ==
    [wavelet_width : Widths, fs : Rates, lower_freq : Freqs,
     upper_freq : Freqs, n_scales : NScales, size_factor : SizeFactors,
     border_crop : {0}, stride : {1}, output : Outputs,
     data_format : DataFormats]

\* arguments of the engine varied over one frequency range
CallArgSpace ==
    [wavelet_width : 1..MaxWidth, fs : {1, MaxFs}, lower_freq : {1},
     upper_freq : {4}, n_scales : {2, MaxScales}, size_factor : {1},
     border_crop : Crops, stride : Strides,
     output : {"complex", "magnitude", "phase"},
     data_format : {"channels_last", "channels_first"}]

\* layers that differ in the initial wavelet width only
PureArgSpace ==
    [wavelet_width : 1..MaxWidth, fs : {MaxFs}, lower_freq : {1},
     upper_freq : {4}, n_scales : {2}, size_factor : {1},
     border_crop : {0}, stride : {1}, output : {"complex"},
     data_format : {"channels_last", "channels_first"}]

Init ==
    /\ args = NoArgs
    /\ status = "none"
    /\ self = NoLayer
    /\ wavelet_width = 0
    /\ built = NoBank
    /\ out = NoCall

\* ComplexMorletCWT(...): on an exception no layer results
NewLayer(a) ==
    LET e == init_raises(a)
        f == init_fields(a)
    IN  /\ BaseIsExact(a)
        /\ args' = a
        /\ built' = NoBank
        /\ IF e # "none"
           THEN /\ status' = e
                /\ self' = NoLayer
                /\ wavelet_width' = 0
           ELSE /\ status' = "ok"
                /\ wavelet_width' = a.wavelet_width
                /\ self' = f @@ [wavelet_bank |->
                                   build_wavelet_bank(f, a.wavelet_width)]

\* the first layer the program constructs, its arguments drawn from Space
Construct(Space) ==
    /\ status = "none"
    /\ \E a \in Space : NewLayer(a)
    /\ out' = NoCall

\* a further layer, constructed while the caller still holds the last scalogram
Reconstruct(Space) ==
    /\ status = "ok"
    /\ \E a \in Space : NewLayer(a)
    /\ UNCHANGED out

\* layer.wavelet_width.assign(w), as an optimizer does between calls
SetWidth(w) ==
    /\ status = "ok"
    /\ w # wavelet_width
    /\ wavelet_width' = w
    /\ UNCHANGED <<args, status, self, built, out>>

\* layer._build_wavelet_bank(), the caller keeping what it returns
BuildBank ==
    /\ status = "ok"
    /\ built' = build_wavelet_bank(self, wavelet_width)
    /\ UNCHANGED <<args, status, self, wavelet_width, out>>

\* layer(inputs), for a layer whose filters have taps (what TensorFlow does
\* with filters of no taps is not decided by this code)
Call(sig) ==
    /\ status = "ok"
    /\ self.wavelet_bank.taps > 0
    /\ out' = call_result(self, wavelet_width, sig)
    /\ UNCHANGED <<args, status, self, wavelet_width, built>>

Next ==
    \/ Construct(ArgSpace)
    \/ \E w \in 1..MaxWidth : SetWidth(w)
    \/ BuildBank

Spec == Init /\ [][Next]_vars

NextCall ==
    \/ Construct(CallArgSpace)
    \/ \E w \in 1..MaxWidth : SetWidth(w)
    \/ \E sig \in Signals : Call(sig)

SpecCall == Init /\ [][NextCall]_vars

NextPure ==
    \/ Construct(PureArgSpace)
    \/ Reconstruct(PureArgSpace)
    \/ \E w \in 1..MaxWidth : SetWidth(w)
    \/ \E sig \in Signals : Call(sig)

SpecPure == Init /\ [][NextPure]_vars

\* ------------------------------------------------------------------------
\* Properties

ValidRange == 0 < args.lower_freq /\ args.lower_freq < args.upper_freq

\* the time length of a scalogram, read off its shape
TimeOut(o) == IF o.data_format = "channels_last" THEN o.shape[2] ELSE o.shape[3]

\* the length left of an axis of ceil(t / stride) samples by [crop:-crop],
\* [crop:] for a non-positive crop
CroppedLen(t, stride, border_crop) ==
    LET len == CeilDiv(t, stride)
        crop == border_crop \div stride
    IN  IF crop > 0 THEN Max(0, len - 2 * crop)
        ELSE IF crop = 0 THEN len
        ELSE Min(len, 0 - crop)

IsOdd(k) == k % 2 = 1

\* C1: the filter bank a call convolves the signal with is the bank
\* synthesized from the value wavelet_width holds at the moment of the call
\* (stated for a non-negative border_crop).
C1_CallUsesCurrentWidth ==
    (out.status = "ok" /\ args.border_crop >= 0)
        => out.filters = build_wavelet_bank(self, out.width)

\* C2: construction fails for every frequency range that does not satisfy
\* 0 < lower_freq < upper_freq, lower_freq = upper_freq and lower_freq = 0
\* included (stated for arguments that are valid otherwise, so that the
\* range alone decides).
C2_InvalidRangeRejected ==
    (/\ status # "none"
     /\ ~ValidRange
     /\ args.n_scales >= 2 /\ args.fs > 0 /\ args.wavelet_width > 0)
        => (status # "ok" /\ self = NoLayer)

\* C3: construction with n_scales < 2 fails with an error; no scale set and
\* no bank result from it.
C3_FewScalesRejected ==
    (status # "none" /\ args.n_scales < 2) => (status # "ok" /\ self = NoLayer)

C3_Witness ==
    /\ status = "ZeroDivisionError"
    /\ args.n_scales = 1
    /\ ValidRange
    /\ check_args(args) = "none"
    /\ args.fs > 0
    /\ args.wavelet_width > 0

\* C4: construction with fs <= 0 or wavelet_width <= 0 fails; no bank is built
\* from a non-positive fs or wavelet_width (stated for a valid frequency
\* range and scale count, so that fs and wavelet_width alone decide).
C4_NonPositiveRejected ==
    (/\ status # "none"
     /\ (args.fs <= 0 \/ args.wavelet_width <= 0)
     /\ ValidRange /\ args.n_scales >= 2)
        => (status # "ok" /\ self = NoLayer)

\* C5: a layer with stride < 1 or border_crop < 0 is rejected at construction,
\* so no call executes, or first fails, with such a stride or border_crop.
C5_EngineConfigRejected ==
    (status # "none" /\ (args.stride < 1 \/ args.border_crop < 0))
        => (status # "ok" /\ out.status = "none")

\* C6 as stated: for time_in >= 1, stride >= 1 and border_crop >= 0 the output
\* time length is ceil(time_in / stride) - 2 * floor(border_crop / stride).
C6_TimeOutUnclamped ==
    (out.status = "ok" /\ self.stride >= 1 /\ self.border_crop >= 0)
        => TimeOut(out) = CeilDiv(out.signal.time, self.stride)
                            - 2 * (self.border_crop \div self.stride)

\* C6 as amended: for time_in >= 1, stride >= 1 and border_crop >= 0 the output
\* time length is ceil(time_in / stride) - 2 * floor(border_crop / stride) when
\* that is not negative, and 0 otherwise.
C6_TimeOutClamped ==
    (out.status = "ok" /\ self.stride >= 1 /\ self.border_crop >= 0)
        => TimeOut(out) = Max(0, CeilDiv(out.signal.time, self.stride)
                                   - 2 * (self.border_crop \div self.stride))

C6_Witness ==
    /\ out.status = "ok"
    /\ self.stride = 2
    /\ self.border_crop = 2
    /\ out.signal.time = 4
    /\ TimeOut(out) = 0

C8_ScalesGeometric ==
    (status = "ok" /\ ValidRange /\ args.n_scales >= 2) =>
        LET n == args.n_scales
            sc == self.scales
            fr == self.frequencies
            step == RDiv(sc[2], sc[1])
        IN  /\ Len(sc) = n /\ Len(fr) = n
            /\ \A i \in 1..(n - 1) :
                  /\ RLess(sc[i], sc[i + 1])
                  /\ RLess(fr[i + 1], fr[i])
                  /\ RDiv(sc[i + 1], sc[i]) = step
            /\ \A i \in 1..n : RMul(sc[i], fr[i]) = <<1, 1>>
            /\ sc[1] = <<1, args.upper_freq>>
            /\ RPow(step, n - 1) = Rat(args.upper_freq, args.lower_freq)
            /\ fr[1] = <<args.upper_freq, 1>>
            /\ fr[n] = <<args.lower_freq, 1>>

C8_Witness ==
    /\ status = "ok"
    /\ args.lower_freq = 1
    /\ args.upper_freq = 25
    /\ args.n_scales = 3
    /\ self.scales = <<(<<1, 25>>), (<<1, 5>>), (<<1, 1>>)>>
    /\ self.frequencies = <<(<<25, 1>>), (<<5, 1>>), (<<1, 1>>)>>

\* C9: kernel_size is 2 * floor(size_factor * max(scales) * sqrt(4.5 *
\* initial_wavelet_width) * fs) + 1, it is odd, and it is fixed at
\* construction: a bank built after any updates of wavelet_width has the
\* kernel size derived from the initial width.
C9_KernelSizeFixed ==
    status = "ok" =>
        LET size == self.wavelet_bank.kernel_size
            m == (size - 1) \div 2
        IN  /\ IsOdd(size)
            /\ (ValidRange /\ args.n_scales >= 2 /\ args.fs > 0
                  /\ args.wavelet_width > 0)
                 => LET lhs == 9 * args.size_factor * args.size_factor
                                 * args.fs * args.fs * args.wavelet_width
                        unit == 2 * args.lower_freq * args.lower_freq
                    IN  /\ m >= 0
                        /\ unit * m * m <= lhs
                        /\ lhs < unit * (m + 1) * (m + 1)
            /\ built # NoBank => built.kernel_size = size

C9_Witness ==
    /\ status = "ok"
    /\ built # NoBank
    /\ built.width # args.wavelet_width
    /\ args.wavelet_width > 0
    /\ args.fs = 2
    /\ args.lower_freq = 1
    /\ built.kernel_size > 1

\* C10: the result of a call depends only on the current scales, the current
\* value of wavelet_width and the signal of that call, not on an earlier call
\* or an earlier value of wavelet_width: two calls that agree on these (and on
\* the layout and output format) return the same scalogram.
C10_CallIsPure ==
    [][(/\ out.status = "ok"
        /\ out'.status = "ok"
        /\ out'.signal = out.signal
        /\ out'.width = out.width
        /\ out'.scales = out.scales
        /\ out'.outputformat = out.outputformat
        /\ out'.data_format = out.data_format) => out' = out]_vars

====
